---- MODULE Spec2Model ----
(***************************************************************************)
(* Model of app.py, the resume analyzer: the handling of the language      *)
(* model's replies (fence stripping, json.loads, back-filling of the       *)
(* required fields, the default match report) and the run of main() after  *)
(* "Submit for Analysis" (the three input modes, the fetch loops, the      *)
(* per-resume loop and the result table).                                  *)
(*                                                                         *)
(* A text is a sequence of characters.  The structural characters of a     *)
(* reply (back-ticks, the letters of "json", white space, JSON             *)
(* punctuation, quotes, digits) are one element each; a run of letters     *)
(* (the content of a string literal, a word) is carried as one element.    *)
(***************************************************************************)
EXTENDS Integers, Sequences, FiniteSets, TLC

(***************************************************************************)
(* Bounds of the model.                                                    *)
(***************************************************************************)
MaxPad == 1
MaxFiles == 2

(***************************************************************************)
(* Characters.                                                             *)
(***************************************************************************)
JSON_WS == {" ", "\n", "\t", "\r"}
PY_WS == JSON_WS \cup {"\f"}
Digits == {"0", "1", "2", "3", "4", "5", "6", "7", "8", "9"}
Words == {"null", "true", "false"}
\* The back-tick character (the lexer of TLA+ has no string for it).
BackTick == "backtick"
Special == PY_WS \cup Digits \cup {BackTick, "{", "}", "[", "]", ":", ",", "\""}

DigitVal(c) ==
    CASE c = "0" -> 0 [] c = "1" -> 1 [] c = "2" -> 2 [] c = "3" -> 3
      [] c = "4" -> 4 [] c = "5" -> 5 [] c = "6" -> 6 [] c = "7" -> 7
      [] c = "8" -> 8 [] c = "9" -> 9

(***************************************************************************)
(* Python str operations used by the code.                                 *)
(***************************************************************************)
\* s[start:stop] with start >= 0 and stop < 0.
PySlice(s, start, stop) ==
    LET n == Len(s)
        hi == IF n + stop < 0 THEN 0 ELSE n + stop
    IN  IF start + 1 > hi THEN << >> ELSE SubSeq(s, start + 1, hi)

strip(s) ==
    LET keep == {i \in 1..Len(s) : s[i] \notin PY_WS}
    IN  IF keep = {} THEN << >>
        ELSE LET lo == CHOOSE i \in keep : \A j \in keep : i <= j
                 hi == CHOOSE i \in keep : \A j \in keep : i >= j
             IN  SubSeq(s, lo, hi)

startswith(s, p) == Len(s) >= Len(p) /\ SubSeq(s, 1, Len(p)) = p

FenceOpen == <<BackTick, BackTick, BackTick, "j", "s", "o", "n">>
FenceClose == <<BackTick, BackTick, BackTick>>

\* strip_fence cutting the opening marker only: response[7:]
strip_fence_OpenOnly(response) ==
    LET r == strip(response)
    IN  IF startswith(r, FenceOpen) THEN SubSeq(r, 8, Len(r)) ELSE r

\* response.strip(); if response.startswith(FenceOpen): response[7:-3]
strip_fence(response) ==
    LET r == strip(response)
    IN  IF startswith(r, FenceOpen) THEN PySlice(r, 7, -3) ELSE r

(***************************************************************************)
(* Python values.  A value is a record [t, s, n, a]: t its type, s the     *)
(* content of a str, n the value of a number, a the elements of a list.    *)
(***************************************************************************)
PyStr(s) == [t |-> "str", s |-> s, n |-> 0, a |-> << >>]
PyNum(n) == [t |-> "num", s |-> << >>, n |-> n, a |-> << >>]
PyNone == [t |-> "null", s |-> << >>, n |-> 0, a |-> << >>]
PyBool(b) == [t |-> "bool", s |-> << >>, n |-> IF b THEN 1 ELSE 0, a |-> << >>]
PyList(a) == [t |-> "list", s |-> << >>, n |-> 0, a |-> a]

\* Python truth value: "not v" is ~Truthy(v).
Truthy(v) ==
    CASE v.t = "str" -> v.s # << >>
      [] v.t = "num" -> v.n # 0
      [] v.t = "bool" -> v.n = 1
      [] v.t = "list" -> v.a # << >>
      [] OTHER -> FALSE

Put(f, k, v) == [x \in DOMAIN f \cup {k} |-> IF x = k THEN v ELSE f[x]]
EmptyDict == [x \in {} |-> PyNone]

(***************************************************************************)
(* json.loads, for documents of nesting depth at most two (an object or a  *)
(* list whose members are scalars or lists of scalars).                    *)
(***************************************************************************)
Fail == [ok |-> FALSE, v |-> PyNone, next |-> 0]

SkipWS(s, i) ==
    CHOOSE j \in i..(Len(s) + 1) :
        /\ (j = Len(s) + 1 \/ s[j] \notin JSON_WS)
        /\ \A k \in i..(j - 1) : s[k] \in JSON_WS

RECURSIVE ParseDigits(_, _, _)
ParseDigits(s, i, acc) ==
    IF i <= Len(s) /\ s[i] \in Digits
    THEN ParseDigits(s, i + 1, 10 * acc + DigitVal(s[i]))
    ELSE [ok |-> TRUE, v |-> PyNum(acc), next |-> i]

ParseScalar(s, i) ==
    IF i > Len(s) THEN Fail
    ELSE IF s[i] = "\"" THEN
        IF i + 1 <= Len(s) /\ s[i + 1] = "\""
        THEN [ok |-> TRUE, v |-> PyStr(<< >>), next |-> i + 2]
        ELSE IF i + 2 <= Len(s) /\ s[i + 1] \notin Special /\ s[i + 2] = "\""
        THEN [ok |-> TRUE, v |-> PyStr(<<s[i + 1]>>), next |-> i + 3]
        ELSE Fail
    ELSE IF s[i] \in Digits THEN
        IF s[i] = "0" /\ i + 1 <= Len(s) /\ s[i + 1] \in Digits
        THEN [ok |-> TRUE, v |-> PyNum(0), next |-> i + 1]
        ELSE ParseDigits(s, i, 0)
    ELSE IF s[i] = "null" THEN [ok |-> TRUE, v |-> PyNone, next |-> i + 1]
    ELSE IF s[i] = "true" THEN [ok |-> TRUE, v |-> PyBool(TRUE), next |-> i + 1]
    ELSE IF s[i] = "false" THEN [ok |-> TRUE, v |-> PyBool(FALSE), next |-> i + 1]
    ELSE Fail

RECURSIVE ParseItems(_, _, _)
ParseItems(s, i, acc) ==
    LET e == ParseScalar(s, i)
        j == SkipWS(s, e.next)
    IN  IF ~e.ok \/ j > Len(s) THEN Fail
        ELSE IF s[j] = "]"
             THEN [ok |-> TRUE, v |-> PyList(Append(acc, e.v)), next |-> j + 1]
        ELSE IF s[j] = ","
             THEN ParseItems(s, SkipWS(s, j + 1), Append(acc, e.v))
        ELSE Fail

ParseList(s, i) ==
    LET j == SkipWS(s, i + 1)
    IN  IF j > Len(s) THEN Fail
        ELSE IF s[j] = "]" THEN [ok |-> TRUE, v |-> PyList(<< >>), next |-> j + 1]
        ELSE ParseItems(s, j, << >>)

ParseMember(s, i) ==
    IF i <= Len(s) /\ s[i] = "[" THEN ParseList(s, i) ELSE ParseScalar(s, i)

RECURSIVE ParseMembers(_, _, _)
ParseMembers(s, i, acc) ==
    LET key == ParseScalar(s, i)
        c == SkipWS(s, key.next)
    IN  IF ~key.ok \/ key.v.t # "str" \/ c > Len(s) THEN Fail
        ELSE IF s[c] # ":" THEN Fail
        ELSE LET val == ParseMember(s, SkipWS(s, c + 1))
                 j == SkipWS(s, val.next)
                 name == IF key.v.s = << >> THEN "" ELSE key.v.s[1]
             IN  IF ~val.ok \/ j > Len(s) THEN Fail
                 ELSE IF s[j] = "}"
                      THEN [ok |-> TRUE, d |-> Put(acc, name, val.v), next |-> j + 1]
                 ELSE IF s[j] = ","
                      THEN ParseMembers(s, SkipWS(s, j + 1), Put(acc, name, val.v))
                 ELSE Fail

ParseDict(s, i) ==
    LET j == SkipWS(s, i + 1)
    IN  IF j > Len(s) THEN Fail
        ELSE IF s[j] = "}" THEN [ok |-> TRUE, d |-> EmptyDict, next |-> j + 1]
        ELSE ParseMembers(s, j, EmptyDict)

\* The result of json.loads: ok = FALSE is json.JSONDecodeError; otherwise t is
\* "dict" with the mapping d, or the type of the value v.
json_loads(s) ==
    LET i == SkipWS(s, 1)
        bad == [ok |-> FALSE, t |-> "none", d |-> EmptyDict, v |-> PyNone]
    IN  IF i > Len(s) THEN bad
        ELSE IF s[i] = "{"
        THEN LET r == ParseDict(s, i)
             IN  IF r.ok /\ SkipWS(s, r.next) = Len(s) + 1
                 THEN [ok |-> TRUE, t |-> "dict", d |-> r.d, v |-> PyNone]
                 ELSE bad
        ELSE LET r == ParseMember(s, i)
             IN  IF r.ok /\ SkipWS(s, r.next) = Len(s) + 1
                 THEN [ok |-> TRUE, t |-> r.v.t, d |-> EmptyDict, v |-> r.v]
                 ELSE bad

(***************************************************************************)
(* str.join, dict.get and the flattening done by main().                   *)
(***************************************************************************)
RECURSIVE Concat(_, _)
\* sep.join(parts) for str parts (each a sequence of characters)
Concat(sep, parts) ==
    IF parts = << >> THEN << >>
    ELSE IF Len(parts) = 1 THEN parts[1]
    ELSE parts[1] \o sep \o Concat(sep, Tail(parts))

\* sep.join(v): v must be iterable and yield str elements, else TypeError.
join(sep, v) ==
    IF v.t = "list" /\ \A i \in 1..Len(v.a) : v.a[i].t = "str"
    THEN [ok |-> TRUE, v |-> PyStr(Concat(sep, [i \in 1..Len(v.a) |-> v.a[i].s]))]
    ELSE IF v.t = "str"
    THEN [ok |-> TRUE, v |-> PyStr(Concat(sep, [i \in 1..Len(v.s) |-> <<v.s[i]>>]))]
    ELSE [ok |-> FALSE, v |-> PyNone]

\* d.get returning the default whatever the dict holds
get_DefaultOnly(d, key, default) == default

\* d.get(key, default)
get(d, key, default) == IF key \in DOMAIN d THEN d[key] ELSE default

(***************************************************************************)
(* parse_resume, from the text get_gemini_response returned.               *)
(***************************************************************************)
required_fields ==
    <<"Name", "Phone", "Email", "University", "YearOfStudy", "Course",
      "Discipline", "CGPA", "KeySkills", "GenAIExperienceScore",
      "AIMLExperienceScore", "SupportingInformation">>

RequiredSet == {required_fields[i] : i \in 1..Len(required_fields)}

NotSpecified == PyStr(<<"Not specified">>)

\* BackFill without the "or not parsed_data[field]" test
BackFill_MissingOnly(parsed_data) ==
    [f \in DOMAIN parsed_data \cup RequiredSet |->
        IF f \notin DOMAIN parsed_data THEN NotSpecified ELSE parsed_data[f]]

\* for field in required_fields:
\*     if field not in parsed_data or not parsed_data[field]: ... = "Not specified"
BackFill(parsed_data) ==
    [f \in DOMAIN parsed_data \cup RequiredSet |->
        IF f \in RequiredSet /\ (f \notin DOMAIN parsed_data \/ ~Truthy(parsed_data[f]))
        THEN NotSpecified
        ELSE parsed_data[f]]

\* The except clause: it reports the error and builds the default record from
\* the local required_fields, which line 125 binds only after json.loads has
\* returned; bound tells whether that assignment was executed.
ParseErrorHandler(bound) ==
    IF bound
    THEN [kind |-> "return", exc |-> "", diag |-> TRUE,
          data |-> [f \in RequiredSet |-> NotSpecified]]
    ELSE [kind |-> "raise", exc |-> "UnboundLocalError", diag |-> TRUE,
          data |-> EmptyDict]

\* The outcome of parse_resume: the record returned, or the exception that
\* leaves the function; diag tells whether st.error was called.
parse_resume(response) ==
    LET r == json_loads(strip_fence(response))
    IN  IF ~r.ok THEN ParseErrorHandler(FALSE)
        ELSE IF r.t # "dict"
        THEN [kind |-> "raise", exc |-> "TypeError", diag |-> FALSE, data |-> EmptyDict]
        ELSE [kind |-> "return", exc |-> "", diag |-> FALSE, data |-> BackFill(r.d)]

(***************************************************************************)
(* analyze_resume, from the text get_gemini_response returned.             *)
(***************************************************************************)
\* a default report of zero and empty values only
DefaultReport_AllEmpty ==
    [x \in {"match_percentage", "matching_keywords", "missing_keywords",
            "profile_summary", "recommendations"} |->
        CASE x = "match_percentage" -> PyNum(0)
          [] x = "profile_summary" -> PyStr(<< >>)
          [] OTHER -> PyList(<< >>)]

DefaultReport ==
    [x \in {"match_percentage", "matching_keywords", "missing_keywords",
            "profile_summary", "recommendations"} |->
        CASE x = "match_percentage" -> PyNum(0)
          [] x = "matching_keywords" -> PyList(<< >>)
          [] x = "missing_keywords" -> PyList(<< >>)
          [] x = "profile_summary" -> PyStr(<<"Error analyzing profile">>)
          [] x = "recommendations" ->
                PyList(<<PyStr(<<"Error generating recommendations">>)>>)]

\* What analyze_resume returns: whatever json.loads gave (t its type), or the
\* default report; parsed tells which.
analyze_resume(response) ==
    LET r == json_loads(strip_fence(response))
    IN  IF r.ok THEN [parsed |-> TRUE, t |-> r.t, d |-> r.d, v |-> r.v]
        ELSE [parsed |-> FALSE, t |-> "dict", d |-> DefaultReport, v |-> PyNone]

\* parsed_data.update({...}) of main(): the four match columns, or the
\* exception raised while the dict literal is evaluated.
MatchColumns(analysis) ==
    IF analysis.t # "dict" THEN [ok |-> FALSE, exc |-> "AttributeError", d |-> EmptyDict]
    ELSE LET pct == get(analysis.d, "match_percentage", PyNum(0))
             mk == join(<<", ">>, get(analysis.d, "matching_keywords", PyList(<< >>)))
             ms == join(<<", ">>, get(analysis.d, "missing_keywords", PyList(<< >>)))
             rc == join(<<"\n">>, get(analysis.d, "recommendations", PyList(<< >>)))
         IN  IF mk.ok /\ ms.ok /\ rc.ok
             THEN [ok |-> TRUE, exc |-> "",
                   d |-> [x \in {"JDMatchPercentage", "MatchingKeywords",
                                 "MissingKeywords", "Recommendations"} |->
                            CASE x = "JDMatchPercentage" -> pct
                              [] x = "MatchingKeywords" -> mk.v
                              [] x = "MissingKeywords" -> ms.v
                              [] x = "Recommendations" -> rc.v]]
             ELSE [ok |-> FALSE, exc |-> "TypeError", d |-> EmptyDict]

update(d, e) == [x \in DOMAIN d \cup DOMAIN e |-> IF x \in DOMAIN e THEN e[x] ELSE d[x]]

(***************************************************************************)
(* Texts the language model may return.                                    *)
(***************************************************************************)
Q(w) == <<"\"", w, "\"">>
Member(k, vt) == Q(k) \o <<":">> \o vt
Obj(ms) == <<"{">> \o Concat(<<",">>, ms) \o <<"}">>
Arr(ws) == <<"[">> \o Concat(<<",">>, [i \in 1..Len(ws) |-> Q(ws[i])]) \o <<"]">>

\* value texts: a string, the empty string, zero, null, a number, an empty list
TruthyTexts == {Q("x"), <<"2">>, Arr(<<"a">>)}
FalsyTexts == {<<"\"", "\"">>, <<"0">>, <<"null">>, <<"[", "]">>}

\* an object giving the value text vt to each of the keys
FieldsObj(keys, vt) == Obj([i \in 1..Len(keys) |-> Member(keys[i], vt)])
\* an object with all the keys, the first k with "x" and the others with vt
MixedObj(keys, k, vt) ==
    Obj([i \in 1..Len(keys) |-> Member(keys[i], IF i <= k THEN Q("x") ELSE vt)])

NumFields == Len(required_fields)

ResumeObjects ==
    {FieldsObj(SubSeq(required_fields, 1, k), vt) :
        k \in 0..NumFields, vt \in TruthyTexts \cup FalsyTexts}
    \cup {FieldsObj(SubSeq(required_fields, k, NumFields), Q("x")) : k \in 2..NumFields}
    \cup {MixedObj(SubSeq(required_fields, 1, m), k, <<"0">>) : m \in {3, 8}, k \in {1, 2}}
    \cup {MixedObj(required_fields, k, vt) :
            k \in 0..(NumFields - 1), vt \in {<<"\"", "\"">>, <<"null">>}}

ReportObj(pct, kw) ==
    Obj(<<Member("match_percentage", pct),
          Member("matching_keywords", kw),
          Member("missing_keywords", <<"[", "]">>),
          Member("profile_summary", Q("Fits the role")),
          Member("recommendations", Arr(<<"Add metrics", "List projects">>))>>)

PctTexts == {<<"0">>, <<"8", "5">>, <<"1", "0", "0">>, <<"1", "5", "0">>,
             Q("high"), <<"null">>}

ReportObjects ==
    {ReportObj(pct, Arr(<<"Python", "SQL">>)) : pct \in PctTexts}
    \cup {ReportObj(<<"8", "5">>, kw) : kw \in {Q("Python"), <<"7">>, <<"[", "]">>}}
    \cup {Obj(<<Member("match_percentage", pct)>>) : pct \in PctTexts}
    \cup {Obj(<<Member("profile_summary", Q("Fits the role"))>>)}

ObjectTexts == ResumeObjects \cup ReportObjects

\* JSON that is no object, and text that is no JSON
OtherJson == {<<"[", "]">>, <<"5">>, Q("Name"), <<"null">>, Arr(<<"Name">>)}
NotJson == {<< >>, <<"Sorry">>, <<"{", "\"", "Name", "\"", ":">>,
            <<"{", "}", "Sorry">>, <<"0", "5">>}

Bodies == ObjectTexts \cup OtherJson \cup NotJson

PadChars == {" ", "\n", "\f"}
Pads == {[i \in 1..n |-> c] : n \in 0..MaxPad, c \in PadChars}
Fences == {"none", "both", "open"}

\* the body in a fence: outer pad, opening marker, inner pad, body, inner pad,
\* closing marker, outer pad
Wrap(fence, outer, inner, body) ==
    CASE fence = "none" -> outer \o inner \o body \o inner \o outer
      [] fence = "both" ->
            outer \o FenceOpen \o inner \o body \o inner \o FenceClose \o outer
      [] fence = "open" -> outer \o FenceOpen \o inner \o body \o inner \o outer

(***************************************************************************)
(* State.                                                                  *)
(***************************************************************************)
VARIABLES
    \* the last reply of the model and what was made of it
    reply,      \* the text get_gemini_response returned
    origin,     \* how that text was made: the body, what json.loads makes of
                \* the body alone, and the wrapping
    fn,         \* the function that asked for it: "parse_resume", "analyze_resume"
    loaded,     \* json.loads of the stripped reply
    parsed,     \* outcome of parse_resume
    analysis,   \* result of analyze_resume
    columns,    \* the match columns main() derives from the analysis
    \* one run of main()
    pc,               \* position in main()
    submit_button,    \* st.sidebar.button("Submit for Analysis")
    upload_method,    \* the radio choice
    jd,               \* the job description text area
    uploaded_files,   \* the file uploader's handles
    drive_links,      \* the file-links text area
    folder_link,      \* the folder-link text input
    service,          \* the Drive service object, "None" until created
    items,            \* the lines, or the folder's pdf_list, being fetched
    k,                \* index of the fetch loop
    submitted_files,  \* the resumes to process
    idx,              \* index of the processing loop (from 1)
    text,             \* read_pdf's result for the current resume
    parsed_data,      \* parse_resume's record for the current resume
    results,          \* the rows
    df,               \* the table shown, << >> when none is
    ui,               \* the messages shown to the user
    status,           \* how the run stands or ended
    log               \* the calls made so far, in order

replyVars == <<reply, origin, fn, loaded, parsed, analysis, columns>>
mainVars == <<pc, submit_button, upload_method, jd, uploaded_files, drive_links,
              folder_link, service, items, k, submitted_files, idx, text,
              parsed_data, results, df, ui, status, log>>
vars == <<replyVars, mainVars>>

NoLoad == [ok |-> FALSE, t |-> "none", d |-> EmptyDict, v |-> PyNone]
NoParsed == [kind |-> "none", exc |-> "", diag |-> FALSE, data |-> EmptyDict]
NoReport == [parsed |-> FALSE, t |-> "none", d |-> EmptyDict, v |-> PyNone]
NoColumns == [ok |-> FALSE, exc |-> "", d |-> EmptyDict]

\* main() has not been entered
MainIdle ==
    /\ pc = "idle" /\ submit_button = FALSE /\ upload_method = "Upload PDFs Directly"
    /\ jd = << >> /\ uploaded_files = << >> /\ drive_links = << >>
    /\ folder_link = << >> /\ service = "None" /\ items = << >> /\ k = 1
    /\ submitted_files = << >> /\ idx = 1 /\ text = << >>
    /\ parsed_data = EmptyDict /\ results = << >>
    /\ df = << >> /\ ui = {} /\ status = "idle" /\ log = << >>

ReplyInit ==
    /\ MainIdle
    /\ \E body \in Bodies, fence \in Fences, outer \in Pads, inner \in Pads :
          /\ origin = [body |-> body, fence |-> fence, outer |-> outer, inner |-> inner,
                       value |-> json_loads(body)]
          /\ reply = Wrap(fence, outer, inner, body)
    /\ fn = "none"
    /\ loaded = NoLoad
    /\ parsed = NoParsed
    /\ analysis = NoReport
    /\ columns = NoColumns

\* parse_resume applied to the reply
ApplyParse ==
    /\ fn = "none"
    /\ fn' = "parse_resume"
    /\ loaded' = json_loads(strip_fence(reply))
    /\ parsed' = parse_resume(reply)
    /\ UNCHANGED <<reply, origin, analysis, columns, mainVars>>

\* analyze_resume applied to the reply, and the columns main() makes of it
ApplyAnalyze ==
    /\ fn = "none"
    /\ fn' = "analyze_resume"
    /\ loaded' = json_loads(strip_fence(reply))
    /\ analysis' = analyze_resume(reply)
    /\ columns' = MatchColumns(analyze_resume(reply))
    /\ UNCHANGED <<reply, origin, parsed, mainVars>>

ReplyNext == ApplyParse \/ ApplyAnalyze

SpecReply == ReplyInit /\ [][ReplyNext]_vars

(***************************************************************************)
(* The inputs of a run and the helpers of main().                          *)
(***************************************************************************)
Methods == {"Upload PDFs Directly", "Use Google Drive File Links",
            "Use Google Drive Folder Link"}

LinkFile == "https://drive.google.com/file/d/1AbC/view"
LinkOpen == "https://drive.google.com/open?id=2DeF"
LinkOther == "https://example.com/cv.pdf"
LinkFolder == "https://drive.google.com/drive/folders/9XyZ"

\* re.search(pat, chunk): group(1) of the first match in a run of non-blank
\* characters, "" when the pattern does not match it
SearchChunk(pat, chunk) ==
    CASE pat = "file/d/([a-zA-Z0-9-_]+)" /\ chunk = LinkFile -> "1AbC"
      [] pat = "id=([a-zA-Z0-9-_]+)" /\ chunk = LinkOpen -> "2DeF"
      [] pat = "open\\?id=([a-zA-Z0-9-_]+)" /\ chunk = LinkOpen -> "2DeF"
      [] pat = "drive/folders/([a-zA-Z0-9-_]+)" /\ chunk = LinkFolder -> "9XyZ"
      [] OTHER -> ""

\* re.search(pat, s) over a whole string: the leftmost match
re_search(pat, s) ==
    LET hits == {i \in 1..Len(s) : SearchChunk(pat, s[i]) # ""}
    IN  IF hits = {} THEN ""
        ELSE SearchChunk(pat, s[CHOOSE i \in hits : \A j \in hits : i <= j])

extract_folder_id(link) == re_search("drive/folders/([a-zA-Z0-9-_]+)", link)

patterns == <<"file/d/([a-zA-Z0-9-_]+)", "id=([a-zA-Z0-9-_]+)",
              "open\\?id=([a-zA-Z0-9-_]+)">>

\* for pat in patterns: m = re.search(pat, link); if m: file_id = ...; break
extract_file_id(link) ==
    LET hits == {i \in 1..Len(patterns) : re_search(patterns[i], link) # ""}
    IN  IF hits = {} THEN ""
        ELSE re_search(patterns[CHOOSE i \in hits : \A j \in hits : i <= j], link)

RECURSIVE split(_)
\* s.split("\n")
split(s) ==
    LET nl == {i \in 1..Len(s) : s[i] = "\n"}
    IN  IF nl = {} THEN <<s>>
        ELSE LET i == CHOOSE x \in nl : \A y \in nl : x <= y
             IN  <<SubSeq(s, 1, i - 1)>> \o split(SubSeq(s, i + 1, Len(s)))

\* the scorer called whatever the job description
ScoreWanted_Always(j) == TRUE

\* if jd.strip():
ScoreWanted(j) == strip(j) # << >>

\* the row made whatever read_pdf returned
HasText_Always(t) == TRUE

\* if text:
HasText(t) == t # << >>

\* the fetched file put in front of the list
Downloaded_InFront(files, f, ok) == IF ok THEN <<f>> \o files ELSE files

\* submitted_files.append(pdf_bytes) in the try, nothing in the except
Downloaded(files, f, ok) == IF ok THEN Append(files, f) ELSE files

\* a row equal to an earlier one dropped
AddRow_Dedup(rows, row) ==
    IF \E n \in 1..Len(rows) : rows[n] = row THEN rows ELSE Append(rows, row)

\* results.append(parsed_data)
AddRow(rows, row) == Append(rows, row)

Event(op, i, ok) == [op |-> op, i |-> i, ok |-> ok]

NaN == [t |-> "nan", s |-> << >>, n |-> 0, a |-> << >>]

\* pd.to_numeric(column, errors="coerce") on one cell
to_numeric(v) == IF v.t \in {"num", "bool"} THEN PyNum(v.n) ELSE NaN

\* pd.DataFrame(results), then the coercion of JDMatchPercentage that the
\* summary metrics do when there is more than one row
DataFrame(rows) ==
    LET cols == UNION {DOMAIN rows[i] : i \in 1..Len(rows)}
        cell(i, c) == IF c \in DOMAIN rows[i] THEN rows[i][c] ELSE NaN
    IN  [i \in 1..Len(rows) |->
            [c \in cols |->
                IF Len(rows) > 1 /\ c = "JDMatchPercentage"
                THEN to_numeric(cell(i, c))
                ELSE cell(i, c)]]

(***************************************************************************)
(* Inputs.                                                                 *)
(***************************************************************************)
JobDescriptions == {<< >>, <<" ">>, <<"Data engineer, Python, SQL">>}

UploadChoices == {[i \in 1..n |-> [name |-> <<"cv.pdf">>]] : n \in 0..MaxFiles}

LineChoices == {<< >>, <<LinkFile>>, <<" ", LinkOpen, " ">>, <<LinkOther>>}
RECURSIVE SeqsUpTo(_, _)
SeqsUpTo(S, n) ==
    IF n = 0 THEN {<< >>}
    ELSE SeqsUpTo(S, n - 1) \cup
         {Append(q, x) : q \in {r \in SeqsUpTo(S, n - 1) : Len(r) = n - 1}, x \in S}
LinkTexts == {Concat(<<"\n">>, ls) : ls \in SeqsUpTo(LineChoices, MaxFiles)}

FolderLinks == {<< >>, <<" ">>, <<LinkFolder>>, <<" ", LinkFolder>>, <<LinkFile>>}

\* what files().list() may return: entries with "id" and "name"
Listings == {[i \in 1..n |-> [id |-> i, name |-> <<"cv.pdf">>]] : n \in 0..MaxFiles}

\* replies of the model to the two prompts, and a failing call
ParseReplies ==
    {Wrap("both", << >>, <<"\n">>, FieldsObj(required_fields, Q("x"))),
     MixedObj(SubSeq(required_fields, 1, 3), 2, <<"\"", "\"">>),
     <<"Sorry">>,
     <<"[", "]">>}
AnalysisReplies ==
    {Wrap("both", << >>, <<"\n">>, ReportObj(<<"8", "5">>, Arr(<<"Python", "SQL">>))),
     Obj(<<Member("match_percentage", <<"1", "5", "0">>)>>),
     ReportObj(Q("high"), <<"[", "]">>),
     Obj(<<Member("profile_summary", Q("Fits the role"))>>),
     <<"Sorry">>,
     <<"[", "]">>,
     ReportObj(<<"8", "5">>, <<"7">>)}

\* get_gemini_response: the model's text, or "" after any exception
GeminiOutcomes(replies) ==
    {[raised |-> FALSE, text |-> r] : r \in replies} \cup {[raised |-> TRUE, text |-> << >>]}

Init ==
    /\ reply = << >> /\ origin = [body |-> << >>, fence |-> "none", outer |-> << >>,
                                  inner |-> << >>, value |-> NoLoad]
    /\ fn = "none" /\ loaded = NoLoad /\ parsed = NoParsed /\ analysis = NoReport
    /\ columns = NoColumns
    /\ pc = "start"
    /\ submit_button \in BOOLEAN
    /\ upload_method \in Methods
    /\ jd \in JobDescriptions
    /\ uploaded_files \in
          IF upload_method = "Upload PDFs Directly" THEN UploadChoices ELSE {<< >>}
    /\ drive_links \in
          IF upload_method = "Use Google Drive File Links" THEN LinkTexts ELSE {<< >>}
    /\ folder_link \in
          IF upload_method = "Use Google Drive Folder Link" THEN FolderLinks ELSE {<< >>}
    /\ service = "None" /\ items = << >> /\ k = 1
    /\ submitted_files = << >> /\ idx = 1 /\ text = << >>
    /\ parsed_data = EmptyDict /\ results = << >>
    /\ df = << >> /\ ui = {} /\ status = "running" /\ log = << >>

(***************************************************************************)
(* main(), one action per step.                                            *)
(***************************************************************************)
\* "return" after a warning, or the end of the run
Stop(how, msg) ==
    /\ pc' = "done"
    /\ status' = how
    /\ ui' = ui \cup msg

Raise(exc) ==
    /\ pc' = "done"
    /\ status' = exc

\* lines 260-272: the page before the button is pressed
Landing ==
    /\ pc = "start" /\ ~submit_button
    /\ Stop("landing", {"info: Batch process up to 100 resumes at once!",
                        "warning: Upload resumes in PDF format only"})
    /\ UNCHANGED <<replyVars, submit_button, upload_method, jd, uploaded_files,
                   drive_links, folder_link, service, items, k, submitted_files,
                   idx, text, parsed_data, results, df, log>>

\* lines 278-281 and 336-343: direct upload
SubmitUpload ==
    /\ pc = "start" /\ submit_button /\ upload_method = "Upload PDFs Directly"
    /\ IF uploaded_files = << >>
       THEN /\ Stop("warned", {"warning: Please upload at least one PDF file."})
            /\ UNCHANGED <<submitted_files>>
       ELSE /\ submitted_files' = uploaded_files
            /\ pc' = "read"
            /\ UNCHANGED <<status, ui>>
    /\ UNCHANGED <<replyVars, submit_button, upload_method, jd, uploaded_files,
                   drive_links, folder_link, service, items, k, idx, text,
                   parsed_data, results, df, log>>

\* lines 283-289: file links, up to the creation of the Drive service
SubmitLinks ==
    /\ pc = "start" /\ submit_button /\ upload_method = "Use Google Drive File Links"
    /\ IF strip(drive_links) = << >>
       THEN /\ Stop("warned", {"warning: Please enter at least one Google Drive file link."})
            /\ UNCHANGED <<items, service, log>>
       ELSE /\ items' = split(strip(drive_links))
            /\ \E ok \in BOOLEAN :
                  /\ log' = Append(log, Event("get_drive_service", 0, ok))
                  /\ IF ok
                     THEN /\ service' = "service"
                          /\ pc' = "fetch_links"
                          /\ UNCHANGED <<status>>
                     ELSE /\ Raise("TypeError")
                          /\ UNCHANGED <<service>>
            /\ UNCHANGED <<ui>>
    /\ UNCHANGED <<replyVars, submit_button, upload_method, jd, uploaded_files,
                   drive_links, folder_link, k, submitted_files, idx, text,
                   parsed_data, results, df>>

\* lines 290-311: one iteration of the loop over the lines
FetchLink ==
    /\ pc = "fetch_links" /\ k <= Len(items)
    /\ LET link == strip(items[k])
           file_id == extract_file_id(link)
       IN  IF file_id # ""
           THEN \E ok \in BOOLEAN :
                   /\ submitted_files' =
                         Downloaded(submitted_files,
                                    [name |-> <<"resume_", file_id, ".pdf">>], ok)
                   /\ log' = Append(log, Event("download_pdf_by_id", k, ok))
                   /\ ui' = IF ok THEN ui
                            ELSE ui \cup {"error: Failed to download file from link"}
           ELSE UNCHANGED <<submitted_files, log, ui>>
    /\ k' = k + 1
    /\ UNCHANGED <<replyVars, pc, submit_button, upload_method, jd, uploaded_files,
                   drive_links, folder_link, service, items, idx, text, parsed_data,
                   results, df, status>>

\* lines 314-325: folder link, up to the listing
SubmitFolder ==
    /\ pc = "start" /\ submit_button /\ upload_method = "Use Google Drive Folder Link"
    /\ IF strip(folder_link) = << >>
       THEN /\ Stop("warned", {"warning: Please enter a Google Drive folder link."})
            /\ UNCHANGED <<items, service, log>>
       ELSE IF extract_folder_id(strip(folder_link)) = ""
       THEN /\ Stop("warned", {"warning: Unable to parse folder ID from link."})
            /\ UNCHANGED <<items, service, log>>
       ELSE \E auth \in BOOLEAN :
               IF ~auth
               THEN /\ log' = Append(log, Event("get_drive_service", 0, FALSE))
                    /\ Raise("TypeError")
                    /\ UNCHANGED <<items, service, ui>>
               ELSE /\ service' = "service"
                    /\ \/ \E pdf_list \in Listings :
                             /\ items' = pdf_list
                             /\ log' = log \o <<Event("get_drive_service", 0, TRUE),
                                                Event("list_pdfs_in_folder", 0, TRUE)>>
                             /\ ui' = ui \cup {"info: Found PDF(s) in the folder."}
                             /\ pc' = "fetch_folder"
                             /\ UNCHANGED <<status>>
                       \/ /\ log' = log \o <<Event("get_drive_service", 0, TRUE),
                                             Event("list_pdfs_in_folder", 0, FALSE)>>
                          /\ Raise("HttpError")
                          /\ UNCHANGED <<items, ui>>
    /\ UNCHANGED <<replyVars, submit_button, upload_method, jd, uploaded_files,
                   drive_links, folder_link, k, submitted_files, idx, text,
                   parsed_data, results, df>>

\* lines 326-334: one iteration of the loop over the folder's entries
FetchFolder ==
    /\ pc = "fetch_folder" /\ k <= Len(items)
    /\ \E ok \in BOOLEAN :
          /\ submitted_files' =
                Downloaded(submitted_files, [name |-> items[k].name], ok)
          /\ log' = Append(log, Event("download_pdf_by_id", k, ok))
          /\ ui' = IF ok THEN ui ELSE ui \cup {"error: Failed to download PDF"}
    /\ k' = k + 1
    /\ UNCHANGED <<replyVars, pc, submit_button, upload_method, jd, uploaded_files,
                   drive_links, folder_link, service, items, idx, text, parsed_data,
                   results, df, status>>

\* lines 336-343: after either fetch loop
CheckFiles ==
    /\ pc \in {"fetch_links", "fetch_folder"} /\ k > Len(items)
    /\ IF submitted_files = << >>
       THEN Stop("warned", {"warning: No resumes to process."})
       ELSE pc' = "read" /\ UNCHANGED <<status, ui>>
    /\ UNCHANGED <<replyVars, submit_button, upload_method, jd, uploaded_files,
                   drive_links, folder_link, service, items, k, submitted_files,
                   idx, text, parsed_data, results, df, log>>

\* lines 345-348 and 359-360: read_pdf on the next resume; without text the
\* loop goes on to the next one
ReadPdf ==
    /\ pc = "read" /\ idx <= Len(submitted_files)
    /\ \E outcome \in {"text", "no text", "exception"} :
          /\ text' = IF outcome = "text" THEN <<"resume text">> ELSE << >>
          /\ ui' = IF outcome = "exception" THEN ui \cup {"error: Error reading PDF"}
                   ELSE ui
          /\ log' = Append(log, Event("read_pdf", idx, outcome = "text"))
    /\ IF HasText(text')
       THEN pc' = "parse" /\ UNCHANGED idx
       ELSE pc' = "read" /\ idx' = idx + 1
    /\ UNCHANGED <<replyVars, submit_button, upload_method, jd, uploaded_files,
                   drive_links, folder_link, service, items, k, submitted_files,
                   parsed_data, results, df, status>>

\* line 349: parse_resume(text)
ParseResume ==
    /\ pc = "parse"
    /\ \E g \in GeminiOutcomes(ParseReplies) :
          \E out \in {parse_resume(g.text)} :
              /\ reply' = g.text
              /\ fn' = "parse_resume"
              /\ loaded' = json_loads(strip_fence(g.text))
              /\ parsed' = out
              /\ log' = Append(log, Event("parse_resume", idx, out.kind = "return"))
              /\ ui' = ui \cup (IF g.raised
                                THEN {"error: Error getting response from Gemini"}
                                ELSE {})
                          \cup (IF out.diag THEN {"error: Error parsing resume data"}
                                ELSE {})
              /\ IF out.kind = "return"
                 THEN /\ parsed_data' = out.data
                      /\ pc' = IF ScoreWanted(jd) THEN "analyze" ELSE "append"
                      /\ UNCHANGED status
                 ELSE /\ Raise(out.exc)
                      /\ UNCHANGED parsed_data
    /\ UNCHANGED <<origin, analysis, columns, submit_button, upload_method, jd,
                   uploaded_files, drive_links, folder_link, service, items, k,
                   submitted_files, idx, text, results, df>>

\* line 351: analyze_resume(text, jd)
AnalyzeResume ==
    /\ pc = "analyze"
    /\ \E g \in GeminiOutcomes(AnalysisReplies) :
          /\ reply' = g.text
          /\ fn' = "analyze_resume"
          /\ loaded' = json_loads(strip_fence(g.text))
          /\ analysis' = analyze_resume(g.text)
          /\ log' = Append(log, Event("analyze_resume", idx, analysis'.parsed))
          /\ ui' = IF g.raised THEN ui \cup {"error: Error getting response from Gemini"}
                   ELSE ui
    /\ pc' = "append"
    /\ UNCHANGED <<origin, parsed, columns, submit_button, upload_method, jd,
                   uploaded_files, drive_links, folder_link, service, items, k,
                   submitted_files, idx, text, parsed_data, results, df, status>>

\* lines 352-360: the match columns, the row, the progress bar
AppendRow ==
    /\ pc = "append"
    /\ LET cols == IF ScoreWanted(jd) THEN MatchColumns(analysis)
                   ELSE [ok |-> TRUE, exc |-> "", d |-> EmptyDict]
       IN  IF cols.ok
           THEN /\ parsed_data' = update(parsed_data, cols.d)
                /\ results' = AddRow(results, parsed_data')
                /\ log' = Append(log, Event("results.append", idx, TRUE))
                /\ idx' = idx + 1
                /\ pc' = "read"
                /\ UNCHANGED status
           ELSE /\ Raise(cols.exc)
                /\ UNCHANGED <<parsed_data, results, log, idx>>
    /\ UNCHANGED <<replyVars, submit_button, upload_method, jd, uploaded_files,
                   drive_links, folder_link, service, items, k, submitted_files,
                   text, df, ui>>

\* lines 362-398: the table, or the warning that there is none
Render ==
    /\ pc = "read" /\ idx > Len(submitted_files)
    /\ IF results # << >>
       THEN /\ df' = DataFrame(results)
            /\ Stop("rendered", {"success: Analysis completed successfully!"})
       ELSE /\ Stop("no_results", {"warning: No results to display."})
            /\ UNCHANGED df
    /\ UNCHANGED <<replyVars, submit_button, upload_method, jd, uploaded_files,
                   drive_links, folder_link, service, items, k, submitted_files,
                   idx, text, parsed_data, results, log>>

Next ==
    \/ Landing
    \/ SubmitUpload
    \/ SubmitLinks
    \/ FetchLink
    \/ SubmitFolder
    \/ FetchFolder
    \/ CheckFiles
    \/ ReadPdf
    \/ ParseResume
    \/ AnalyzeResume
    \/ AppendRow
    \/ Render

Spec == Init /\ [][Next]_vars

(***************************************************************************)
(* Properties.                                                             *)
(***************************************************************************)
Exceptions == {"TypeError", "UnboundLocalError", "AttributeError", "HttpError"}
Raised == status \in Exceptions

NonEmpty(v) ==
    /\ v.t \notin {"null", "nan"}
    /\ v.t = "str" => v.s # << >>
    /\ v.t = "list" => v.a # << >>

Usable(d, f) == f \in DOMAIN d /\ Truthy(d[f])

\* C1: whenever parse_resume returns a record, the record has each of the
\* twelve required keys with a non-empty value: the model's value when it gave
\* a usable one, "Not specified" otherwise.
C1_RecordComplete ==
    (fn = "parse_resume" /\ parsed.kind = "return") =>
        \A f \in RequiredSet :
            /\ f \in DOMAIN parsed.data
            /\ NonEmpty(parsed.data[f])
            /\ parsed.data[f] = IF Usable(loaded.d, f) THEN loaded.d[f]
                                ELSE PyStr(<<"Not specified">>)

\* a fenced reply with a missing field and a falsy field, both back-filled
C1_Witness ==
    /\ fn = "parse_resume" /\ parsed.kind = "return" /\ origin.fence = "both"
    /\ \E f \in RequiredSet : f \notin DOMAIN loaded.d
    /\ \E f \in RequiredSet : f \in DOMAIN loaded.d /\ ~Truthy(loaded.d[f])
    /\ \E f \in RequiredSet : Usable(loaded.d, f)

\* C2: when the reply to the field-parsing prompt is not valid JSON (the empty
\* reply after a failed model call included), parse_resume reports a
\* diagnostic and returns the record with every required field "Not
\* specified"; it does not raise.
C2_DefaultRecordOnBadJson ==
    (fn = "parse_resume" /\ ~loaded.ok) =>
        /\ parsed.kind = "return"
        /\ parsed.diag
        /\ parsed.data = [f \in RequiredSet |-> PyStr(<<"Not specified">>)]
        /\ ~Raised

InClaimSpace(pad) == \A i \in 1..Len(pad) : pad[i] \in {" ", "\n", "\t"}

\* C3 as stated: a JSON object in a fence (both markers, or the opening one
\* only), with or without spaces and newlines around, parses after stripping
\* to the object it parses to unwrapped; without a fence it parses unchanged.
C3_AnyFence ==
    (fn # "none" /\ origin.value.t = "dict"
        /\ InClaimSpace(origin.outer) /\ InClaimSpace(origin.inner)) =>
        loaded = origin.value

\* C3 as amended: the same for a reply with both markers (any white space
\* outside them, JSON white space inside) and for a reply without a fence;
\* with the opening marker only the stripped text is no JSON.
C3_BothMarkers ==
    (fn # "none" /\ origin.value.t = "dict") =>
        /\ (origin.fence = "none" \/ (origin.fence = "both" /\ InClaimSpace(origin.inner)))
              => (loaded.ok /\ loaded.t = "dict" /\ loaded = origin.value)
        /\ origin.fence = "open" => ~loaded.ok

\* a full record between both markers and newlines
C3_Witness ==
    /\ fn = "parse_resume" /\ origin.fence = "both" /\ origin.inner = <<"\n">>
    /\ origin.outer = <<" ">>
    /\ loaded.ok /\ DOMAIN loaded.d = RequiredSet
    /\ parsed.kind = "return"

(***************************************************************************)
(* The log of calls.                                                       *)
(***************************************************************************)
FetchOps == {"get_drive_service", "list_pdfs_in_folder", "download_pdf_by_id"}
StepOps == {"read_pdf", "parse_resume", "analyze_resume", "results.append"}

Has(op, i) == \E n \in DOMAIN log : log[n].op = op /\ log[n].i = i
Positions(op) == {n \in DOMAIN log : log[n].op = op}

\* the row of the resume analysed last is in the table
AnalysedRowAdded ==
    /\ fn = "analyze_resume" /\ pc # "append" /\ ~Raised
    /\ results # << >>
LastRow == results[Len(results)]

AllEmptyReport ==
    [x \in {"match_percentage", "matching_keywords", "missing_keywords",
            "profile_summary", "recommendations"} |->
        CASE x = "match_percentage" -> PyNum(0)
          [] x = "profile_summary" -> PyStr(<< >>)
          [] OTHER -> PyList(<< >>)]

\* C4 as stated: after an unparsable reply to the match-scoring prompt the
\* report is made of zero and empty values only (empty profile_summary and
\* recommendations included), and the row gets its match columns from them.
C4_AllEmptyDefaults ==
    (fn = "analyze_resume" /\ ~loaded.ok) =>
        /\ analysis.d = AllEmptyReport
        /\ AnalysedRowAdded => LastRow["Recommendations"] = PyStr(<< >>)

\* C4 as amended: after an unparsable reply the report is match_percentage 0,
\* no matching and no missing keywords, profile_summary "Error analyzing
\* profile" and the one recommendation "Error generating recommendations";
\* the run does not abort: the row is appended next, with JDMatchPercentage
\* 0, empty keyword columns and that recommendation, and the loop goes on to
\* the resumes that remain.
C4_ErrorTextDefaults ==
    /\ (fn = "analyze_resume" /\ ~loaded.ok) =>
          /\ analysis.d["match_percentage"] = PyNum(0)
          /\ analysis.d["matching_keywords"] = PyList(<< >>)
          /\ analysis.d["missing_keywords"] = PyList(<< >>)
          /\ analysis.d["profile_summary"] = PyStr(<<"Error analyzing profile">>)
          /\ analysis.d["recommendations"] =
                PyList(<<PyStr(<<"Error generating recommendations">>)>>)
          /\ ~Raised
          /\ pc # "append" =>
                /\ AnalysedRowAdded
                /\ LastRow["JDMatchPercentage"] = PyNum(0)
                /\ LastRow["MatchingKeywords"] = PyStr(<< >>)
                /\ LastRow["MissingKeywords"] = PyStr(<< >>)
                /\ LastRow["Recommendations"] =
                      PyStr(<<"Error generating recommendations">>)
    /\ \A n \in Positions("analyze_resume") :
          ~log[n].ok =>
             /\ n = Len(log) => (pc = "append" /\ ~Raised)
             /\ n < Len(log) => log[n + 1] = Event("results.append", log[n].i, TRUE)
             /\ n + 1 < Len(log) => log[n + 2].op = "read_pdf" /\ log[n + 2].i = log[n].i + 1
             /\ (pc = "done" /\ n < Len(log)) =>
                   (Raised \/ \A i \in 1..Len(submitted_files) : Has("read_pdf", i))

\* the first resume got the default report and its row, the second was
\* processed after it
C4_Witness ==
    /\ pc = "done" /\ status = "rendered" /\ Len(results) = 2
    /\ \E n \in Positions("analyze_resume") : log[n].i = 1 /\ ~log[n].ok
    /\ results[1]["Recommendations"] = PyStr(<<"Error generating recommendations">>)
    /\ Has("results.append", 2)

\* C5 as stated: the JDMatchPercentage of every row is a number between 0 and
\* 100, and no row made with a job description lacks it.
C5_PercentageInRange ==
    \A n \in DOMAIN results :
        /\ ScoreWanted(jd) => "JDMatchPercentage" \in DOMAIN results[n]
        /\ "JDMatchPercentage" \in DOMAIN results[n] =>
              /\ results[n]["JDMatchPercentage"].t = "num"
              /\ results[n]["JDMatchPercentage"].n \in 0..100

\* C5 as amended: the JDMatchPercentage of the row is the value the reply's
\* object carries under match_percentage, as it is (no range or type check),
\* 0 when the object has no such key, and 0 when the reply is unparsable.
C5_PercentagePassedThrough ==
    AnalysedRowAdded =>
        /\ "JDMatchPercentage" \in DOMAIN LastRow
        /\ LastRow["JDMatchPercentage"] =
              IF loaded.ok /\ "match_percentage" \in DOMAIN loaded.d
              THEN loaded.d["match_percentage"]
              ELSE PyNum(0)

\* a row holding the 150 the model replied
C5_Witness ==
    /\ AnalysedRowAdded
    /\ loaded.ok
    /\ LastRow["JDMatchPercentage"] = PyNum(150)

\* C6 as stated: at the end of a run every resume that read_pdf was called
\* on has a row, the ones whose extraction failed included.
C6_RowForEveryResume ==
    (pc = "done" /\ status \in {"rendered", "no_results"}) =>
        \A n \in Positions("read_pdf") : Has("results.append", log[n].i)

\* C6 as amended: a resume for which read_pdf returns the empty string (after
\* a read error or not) is skipped: no parse call, no score call and no row
\* for it, and the loop goes on; the rows are, one each, the resumes with a
\* non-empty text among those the loop has finished.
C6_NoTextNoRow ==
    /\ \A n \in Positions("read_pdf") :
          ~log[n].ok =>
             /\ \A op \in StepOps \ {"read_pdf"} : ~Has(op, log[n].i)
             /\ n < Len(log) => log[n + 1].op = "read_pdf" /\ log[n + 1].i = log[n].i + 1
    /\ \A i \in 1..(idx - 1) :
          /\ Has("read_pdf", i)
          /\ Has("results.append", i) <=> Event("read_pdf", i, TRUE) \in {log[n] : n \in DOMAIN log}
    /\ Len(results) = Cardinality({i \in 1..(idx - 1) : Has("results.append", i)})

\* a run that ends with a table although one PDF could not be read
C6_Witness ==
    /\ pc = "done" /\ status = "rendered"
    /\ "error: Error reading PDF" \in ui
    /\ \E n \in Positions("read_pdf") : ~log[n].ok
    /\ Len(results) = 1 /\ Len(submitted_files) = 2

InvalidInput ==
    CASE upload_method = "Upload PDFs Directly" -> uploaded_files = << >>
      [] upload_method = "Use Google Drive File Links" ->
            \/ strip(drive_links) = << >>
            \/ \A line \in {split(strip(drive_links))[n] :
                               n \in 1..Len(split(strip(drive_links)))} :
                  extract_file_id(strip(line)) = ""
      [] OTHER ->
            \/ strip(folder_link) = << >>
            \/ extract_folder_id(strip(folder_link)) = ""

\* C7: on a missing or invalid input the run ends with a warning and no
\* table, and nothing has been attempted before: no Drive authentication, no
\* listing, no download, no extraction, no model call.
C7_NothingAttempted ==
    (submit_button /\ InvalidInput) =>
        /\ log = << >>
        /\ pc = "done" => (status = "warned" /\ df = << >>)

Downloads == SelectSeq(log, LAMBDA e : e.op = "download_pdf_by_id")
Fetched == SelectSeq(Downloads, LAMBDA e : e.ok)

\* the items of the fetch loop that name a file, and the name each is given
ItemHasId(j) ==
    IF upload_method = "Use Google Drive File Links"
    THEN extract_file_id(strip(items[j])) # ""
    ELSE TRUE
ItemName(j) ==
    IF upload_method = "Use Google Drive File Links"
    THEN <<"resume_", extract_file_id(strip(items[j])), ".pdf">>
    ELSE items[j].name

\* C8: in file-links and folder mode a failed download is reported for its
\* item only: every item before the loop's position that names a file has been
\* attempted once, failures before it or not, the loop leaves no item out,
\* and the resumes to process are the items downloaded, in the order of their
\* links or folder entries.
C8_FetchGoesOn ==
    upload_method # "Upload PDFs Directly" =>
        /\ \A n \in 1..(Len(Downloads) - 1) : Downloads[n].i < Downloads[n + 1].i
        /\ {Downloads[n].i : n \in 1..Len(Downloads)} =
              {j \in 1..Len(items) : j < k /\ ItemHasId(j)}
        /\ submitted_files = [n \in 1..Len(Fetched) |-> [name |-> ItemName(Fetched[n].i)]]
        /\ pc \in {"read", "parse", "analyze", "append"} => k = Len(items) + 1
        /\ (\E n \in 1..Len(Downloads) : ~Downloads[n].ok) =>
              (\E msg \in ui : msg \in {"error: Failed to download file from link",
                                       "error: Failed to download PDF"})

\* a failed download followed by a successful one, whose file is processed
C8_Witness ==
    /\ pc = "read" /\ Len(submitted_files) = 1
    /\ Len(Downloads) = 2 /\ ~Downloads[1].ok /\ Downloads[2].ok

Appends == SelectSeq(log, LAMBDA e : e.op = "results.append")

\* C9: the table is a sequence with at most one row per submitted resume,
\* one row for each resume whose processing reached the append and no other,
\* in input order; a row once added keeps its place, and equal rows are kept
\* apart.
C9_RowsInInputOrder ==
    /\ [](/\ Len(results) = Len(Appends)
          /\ Len(results) <= Len(submitted_files)
          /\ \A n \in 1..Len(Appends) : Appends[n].i \in 1..Len(submitted_files)
          /\ \A n \in 1..(Len(Appends) - 1) : Appends[n].i < Appends[n + 1].i
          /\ status = "rendered" =>
                /\ Len(df) = Len(results)
                /\ \A n \in 1..Len(df) : \A c \in DOMAIN results[n] :
                      c # "JDMatchPercentage" => df[n][c] = results[n][c]
                /\ \A i \in 1..Len(submitted_files) :
                      Has("results.append", i) <=> Has("parse_resume", i))
    /\ [][results' # results =>
             /\ Len(results') = Len(results) + 1
             /\ SubSeq(results', 1, Len(results)) = results]_vars

\* two equal rows, of the first and the third resume or of two neighbours
C9_Witness ==
    /\ status = "rendered" /\ Len(df) = 2
    /\ results[1] = results[2]
    /\ Has("results.append", 1) /\ Has("results.append", 2)

\* the resume an event belongs to: a successful download fetches the resume
\* it becomes, a step of the loop has the resume's index; 0 for the others
ResumeOf(n) ==
    IF log[n].op = "download_pdf_by_id" /\ log[n].ok
    THEN Cardinality({m \in 1..n : log[m].op = "download_pdf_by_id" /\ log[m].ok})
    ELSE IF log[n].op \in StepOps THEN log[n].i
    ELSE 0

StepsInOrder(n) ==
    IF n = 1 \/ log[n - 1].op \in FetchOps
    THEN log[n].op = "read_pdf" /\ log[n].i = 1
    ELSE LET prev == log[n - 1]
         IN  CASE prev.op = "read_pdf" /\ prev.ok ->
                    log[n].op = "parse_resume" /\ log[n].i = prev.i
               [] prev.op = "read_pdf" /\ ~prev.ok ->
                    log[n].op = "read_pdf" /\ log[n].i = prev.i + 1
               [] prev.op = "parse_resume" ->
                    /\ prev.ok
                    /\ log[n].i = prev.i
                    /\ log[n].op = IF strip(jd) # << >> THEN "analyze_resume"
                                   ELSE "results.append"
               [] prev.op = "analyze_resume" ->
                    log[n].op = "results.append" /\ log[n].i = prev.i
               [] OTHER ->
                    log[n].op = "read_pdf" /\ log[n].i = prev.i + 1

\* C10 as stated: every step of resume i, its fetch included, is made before
\* any step of resume i+1.
C10_OneResumeAtATime ==
    \A n, m \in DOMAIN log :
        (n < m /\ ResumeOf(n) > 0 /\ ResumeOf(m) > 0) => ResumeOf(n) <= ResumeOf(m)

\* C10 as amended: a run has two phases, one call at a time.  First the
\* fetches, in input order, all of them before any extraction.  Then, for
\* each resume in input order, extraction, parse call, score call (made only
\* when the job description is non-blank) and append of the row, in this
\* order, every one of these steps of resume i before any of resume i+1.
C10_FetchAllThenProcess ==
    /\ \A n, m \in DOMAIN log : (n < m /\ log[m].op \in FetchOps) => log[n].op \in FetchOps
    /\ \A n \in 1..(Len(Downloads) - 1) : Downloads[n].i < Downloads[n + 1].i
    /\ \A n \in DOMAIN log : log[n].op \in StepOps => StepsInOrder(n)
    /\ Positions("analyze_resume") # {} => strip(jd) # << >>

\* two resumes fetched one after the other, then processed one after the other
C10_Witness ==
    /\ Len(Fetched) = 2
    /\ Has("analyze_resume", 1) /\ Has("results.append", 1)
    /\ Has("analyze_resume", 2) /\ Has("results.append", 2)
====
